---- MODULE Spec2Model ----
(***************************************************************************)
(* Error canceling (isodesmic) reactions of arkane/isodesmic.py:           *)
(* ErrorCancelingSpecies, ErrorCancelingReaction and SpeciesConstraints.   *)
(*                                                                         *)
(* Python values are modelled as records.  A dict is a sequence of         *)
(* <<key, value>> pairs with distinct keys, in insertion order.  Enthalpies *)
(* are integers (J/mol after the conversion done by ScalarQuantity).       *)
(***************************************************************************)
EXTENDS Integers, Sequences, FiniteSets, TLC

(***************************************************************************)
(* Bounds of the model.                                                    *)
(***************************************************************************)
MaxCoeff == 1        \* stoichiometric coefficients range over -MaxCoeff..MaxCoeff
MaxCompanions == 2   \* entries of the species dict given to a reaction
MaxCount == 2        \* atoms of one element in a target molecule
MaxRings == 2        \* rings of a target molecule
MaxCandidates == 2   \* length of the reference list given to SpeciesConstraints
MaxAccepted == 1     \* calculate_constraints is not called again once reference_species is longer
MaxSources == 3      \* entries of the reference_data of a reference species
MaxUncertainty == 2  \* H298 uncertainties range over 0..MaxUncertainty
MaxLoads == 2        \* calls of ReferenceDatabase.load
MaxSets == 2         \* set names given to extract_model_chemistry
MaxKeys == 2         \* indices or labels given to one lookup
MaxEntries == 2      \* calls of MetalLibrary.load_entry

(***************************************************************************)
(* Generic helpers on sequences and dicts.                                 *)
(***************************************************************************)
Range(s) == {s[i] : i \in 1..Len(s)}

InjectiveSeqs(S, n) == {s \in [1..n -> S] : \A i, j \in 1..n : s[i] = s[j] => i = j}

InjectiveSeqsUpTo(S, n) == UNION {InjectiveSeqs(S, k) : k \in 0..n}

\* Python's None, and the absence of an object / of a returned value.
None == [type |-> "NoneType"]

\* Python values carry their type, so that isinstance can be modelled.
Str(s) == [type |-> "str", v |-> s]

Tuple(value, units) == [type |-> "tuple", t |-> <<value, units>>]

isinstance(x, type) == x.type = type

(***************************************************************************)
(* rmgpy.quantity.ScalarQuantity(value, units): value_si is the value      *)
(* converted to SI units (J/mol for molar energies).                       *)
(***************************************************************************)
UnitFactor(units) == IF units = "kJ/mol" THEN 1000 ELSE IF units = "kcal/mol" THEN 4184 ELSE 1

ScalarQuantity(value, units) == [type |-> "ScalarQuantity", value_si |-> value * UnitFactor(units)]

(***************************************************************************)
(* ErrorCancelingSpecies.__init__                                          *)
(***************************************************************************)
ErrorCancelingSpecies(molecule, low_level_hf298, model_chemistry, high_level_hf298, source) ==
    IF ~isinstance(molecule, "Molecule")
    THEN [type |-> "raise", exc |-> "ValueError", what |-> "molecule"]
    ELSE IF ~isinstance(model_chemistry, "str")
    THEN [type |-> "raise", exc |-> "ValueError", what |-> "model_chemistry"]
    ELSE [type |-> "ErrorCancelingSpecies",
          molecule |-> molecule,
          model_chemistry |-> model_chemistry,
          low_level_hf298 |-> ScalarQuantity(low_level_hf298.t[1], low_level_hf298.t[2]),
          high_level_hf298 |-> IF high_level_hf298 # None
                               THEN ScalarQuantity(high_level_hf298.t[1], high_level_hf298.t[2])
                               ELSE None,
          source |-> source]

(***************************************************************************)
(* Species used as targets and companions of reactions.  The molecule of   *)
(* a species plays no part in a reaction's arithmetic; it is a name here.  *)
(***************************************************************************)
Name(smiles) == [type |-> "Molecule", smiles |-> smiles]

TargetPool ==
    { ErrorCancelingSpecies(Name("T"), Tuple(50, "J/mol"), Str("X"), None, None),
      ErrorCancelingSpecies(Name("T"), Tuple(100, "J/mol"), Str("X"), Tuple(110, "J/mol"), Str("ref")),
      ErrorCancelingSpecies(Name("T"), Tuple(100, "J/mol"), Str("X"), None, None),
      ErrorCancelingSpecies(Name("T"), Tuple(2, "kJ/mol"), Str("Y"), None, None) }

CompanionPool ==
    { ErrorCancelingSpecies(Name("A"), Tuple(30, "J/mol"), Str("X"), Tuple(40, "J/mol"), Str("ref")),
      ErrorCancelingSpecies(Name("B"), Tuple(10, "J/mol"), Str("X"), Tuple(5, "J/mol"), Str("ref")),
      ErrorCancelingSpecies(Name("S"), Tuple(100, "J/mol"), Str("X"), Tuple(120, "J/mol"), Str("ref")),
      ErrorCancelingSpecies(Name("K"), Tuple(1, "kJ/mol"), Str("Y"), Tuple(3, "kJ/mol"), Str("ref")),
      ErrorCancelingSpecies(Name("A"), Tuple(30, "J/mol"), Str("Y"), Tuple(40, "J/mol"), Str("ref")),
      ErrorCancelingSpecies(Name("N"), Tuple(30, "J/mol"), Str("X"), None, None),
      ErrorCancelingSpecies(Name("M"), Tuple(10, "J/mol"), Str("Y"), None, None) }

Coefficients == (-MaxCoeff)..MaxCoeff

\* The species dicts {ErrorCancelingSpecies: coefficient} over a pool of species.
SpeciesDicts(pool) ==
    UNION { { [i \in 1..Len(keys) |-> <<keys[i], coeffs[i]>>] :
                coeffs \in [1..Len(keys) -> Coefficients] } :
            keys \in InjectiveSeqsUpTo(pool, MaxCompanions) }

VARIABLES
    rxn,        \* the ErrorCancelingReaction object, None before construction
    rxn_out     \* outcome of the last reaction operation: a value or a raised exception

VARIABLES
    sc,         \* the SpeciesConstraints object, None before construction
    sc_out      \* what the last call of calculate_constraints returned, None before

VARIABLES
    ecs,        \* an ErrorCancelingSpecies object, None before construction
    ecs_out    \* outcome of the last operation on the species

rxnVars == <<rxn, rxn_out>>

scVars == <<sc, sc_out>>

VARIABLES
    ref,        \* a ReferenceSpecies object, None before construction
    ref_out     \* outcome of the last method call on the reference species

ecsVars == <<ecs, ecs_out>>

VARIABLES
    db,         \* the ReferenceDatabase object
    db_out,     \* outcome of the last method call on the database
    loads       \* number of calls of load so far

refVars == <<ref, ref_out>>

VARIABLES
    metal,      \* the MetalDatabase object
    metal_out,  \* outcome of the last get_ call on the metal database
    entered     \* the calls of load_entry so far, as <<label, arguments>>

dbVars == <<db, db_out, loads>>

metalVars == <<metal, metal_out, entered>>

vars == <<rxn, rxn_out, sc, sc_out, ecs, ecs_out, ref, ref_out, db, db_out, loads,
          metal, metal_out, entered>>

(***************************************************************************)
(* ErrorCancelingReaction.__init__                                         *)
(* A raised ValueError carries what its message names (the species and the *)
(* two model chemistries) and the arguments of the failed call.            *)
(***************************************************************************)
\* Variant of FirstMismatch that passes over species with coefficient 0.
FirstMismatch_SkipsZeroCoefficient(species, model_chemistry) ==
    LET bad == {i \in 1..Len(species) :
                  species[i][2] # 0 /\ species[i][1].model_chemistry # model_chemistry}
    IN  IF bad = {} THEN 0 ELSE CHOOSE i \in bad : \A j \in bad : i <= j

\* Index of the first key of the dict whose model chemistry differs, 0 if none.
FirstMismatch(species, model_chemistry) ==
    LET bad == {i \in 1..Len(species) : species[i][1].model_chemistry # model_chemistry}
    IN  IF bad = {} THEN 0 ELSE CHOOSE i \in bad : \A j \in bad : i <= j

ErrorCancelingReaction(target, species) ==
    /\ LET model_chemistry == target.model_chemistry
           k == FirstMismatch(species, model_chemistry)
       IN  IF k # 0
           THEN /\ rxn' = None
                /\ rxn_out' = [type |-> "raise", exc |-> "ValueError",
                               spcs |-> species[k][1],
                               spcs_model_chemistry |-> species[k][1].model_chemistry,
                               model_chemistry |-> model_chemistry,
                               args |-> [target |-> target, species |-> species]]
           ELSE /\ rxn' = [type |-> "ErrorCancelingReaction", target |-> target,
                           model_chemistry |-> model_chemistry,
                           species |-> species]
                /\ rxn_out' = [type |-> "constructed"]
    /\ UNCHANGED <<scVars, ecsVars, refVars, dbVars, metalVars>>

(***************************************************************************)
(* ErrorCancelingReaction.__repr__                                         *)
(* The species that the string lists after '==' (coefficient > 0) and,     *)
(* after the target, before it (every other coefficient).                  *)
(***************************************************************************)
Products(self) == SelectSeq(self.species, LAMBDA spec : spec[2] > 0)

Reactants(self) == SelectSeq(self.species, LAMBDA spec : ~(spec[2] > 0))

(***************************************************************************)
(* ErrorCancelingReaction.calculate_target_thermo                          *)
(***************************************************************************)
RECURSIVE SumLow(_)
SumLow(items) ==
    IF items = <<>> THEN 0
    ELSE items[1][1].low_level_hf298.value_si * items[1][2] + SumLow(Tail(items))

RECURSIVE SumHigh(_)
SumHigh(items) ==
    IF items = <<>> THEN 0
    ELSE items[1][1].high_level_hf298.value_si * items[1][2] + SumHigh(Tail(items))

TargetLowLevel_PrefersHighLevel(self) ==
    IF self.target.high_level_hf298 # None
    THEN self.target.high_level_hf298.value_si
    ELSE self.target.low_level_hf298.value_si

\* self.target.low_level_hf298.value_si
TargetLowLevel(self) == self.target.low_level_hf298.value_si

\* Variant of calculate_target_thermo that adds the low level reaction enthalpy.
calculate_target_thermo_AddsLowLevel(self) ==
    LET low_level_h_rxn == SumLow(self.species) - self.target.low_level_hf298.value_si
    IN  IF \E i \in 1..Len(self.species) : self.species[i][1].high_level_hf298 = None
        THEN [type |-> "raise", exc |-> "AttributeError", low_level_h_rxn |-> low_level_h_rxn]
        ELSE [type |-> "ScalarQuantity", value_si |-> SumHigh(self.species) + low_level_h_rxn,
              units |-> "J/mol"]

calculate_target_thermo(self) ==
    LET low_level_h_rxn == SumLow(self.species) - TargetLowLevel(self)
    IN  IF \E i \in 1..Len(self.species) : self.species[i][1].high_level_hf298 = None
        THEN \* None has no attribute value_si; low_level_h_rxn is already evaluated
             [type |-> "raise", exc |-> "AttributeError", low_level_h_rxn |-> low_level_h_rxn]
        ELSE [type |-> "ScalarQuantity", value_si |-> SumHigh(self.species) - low_level_h_rxn,
              units |-> "J/mol"]

NewReaction ==
    /\ rxn = None
    /\ rxn_out = None
    /\ \E target \in TargetPool, species \in SpeciesDicts(CompanionPool) : ErrorCancelingReaction(target, species)

CalculateTargetThermo ==
    /\ rxn # None
    /\ rxn_out' = calculate_target_thermo(rxn)
    /\ UNCHANGED <<rxn, scVars, ecsVars, refVars, dbVars, metalVars>>

(***************************************************************************)
(* Molecules, as SpeciesConstraints sees them through rmgpy's Molecule:    *)
(*   get_element_count()  a dict {element symbol: count}                   *)
(*   enumerate_bonds()    a dict {bond label: count}                       *)
(*   get_smallest_set_of_smallest_rings()  a list of rings; a ring is      *)
(*                        given by the number of its atoms, len(ring)      *)
(***************************************************************************)
Molecule(element_count, bonds, rings) ==
    [type |-> "Molecule", element_count |-> element_count, bonds |-> bonds, rings |-> rings]

get_element_count(molecule) == molecule.element_count

enumerate_bonds(molecule) == molecule.bonds

get_smallest_set_of_smallest_rings(molecule) == molecule.rings

\* keys(), in the dict's order
Keys(dict) == [i \in 1..Len(dict) |-> dict[i][1]]

\* the dicts with keys from S, in every insertion order, and values 1..maxValue
Dicts(S, minLen, maxValue) ==
    UNION { { [i \in 1..Len(keys) |-> <<keys[i], values[i]>>] :
                values \in [1..Len(keys) -> 1..maxValue] } :
            keys \in {k \in InjectiveSeqsUpTo(S, Cardinality(S)) : Len(k) >= minLen} }

Elements == {"C", "H"}

BondLabels == {"C-H", "C=C"}

RingSizes == {3, 5}

\* '{0}_ring'.format(n)
RingLabel(n) == <<"1_ring", "2_ring", "3_ring", "4_ring", "5_ring", "6_ring">>[n]

TargetMolecules ==
    { Molecule(e, b, r) :
        e \in Dicts(Elements, 1, MaxCount),
        b \in Dicts(BondLabels, 0, 1),
        r \in UNION {[1..n -> RingSizes] : n \in 0..MaxRings} }

\* The molecules of the reference species offered to SpeciesConstraints.
ReferenceMolecules ==
    { Molecule(<<<<"C", 1>>, <<"H", 2>>>>, <<<<"C-H", 2>>>>, <<>>),
      Molecule(<<<<"C", 3>>>>, <<>>, <<3>>),
      Molecule(<<<<"H", 1>>, <<"C", 2>>>>, <<<<"C=C", 1>>>>, <<5, 5>>) }

AsSpecies(molecule) == ErrorCancelingSpecies(molecule, Tuple(0, "J/mol"), Str("X"), None, None)

(***************************************************************************)
(* SpeciesConstraints._get_constraint_map                                  *)
(* The map is a function from labels to indices.  ring_order is the order  *)
(* in which the set possible_rings_sizes is iterated: the iteration order  *)
(* of a set of str depends on the process's hash seed.                     *)
(***************************************************************************)
\* Variant of possible_rings_sizes that looks at the first ring only.
possible_rings_sizes_FirstRingOnly(molecule) ==
    {RingLabel(get_smallest_set_of_smallest_rings(molecule)[i]) :
        i \in 1..Len(get_smallest_set_of_smallest_rings(molecule)) \cap {1}}

possible_rings_sizes(molecule) ==
    {RingLabel(get_smallest_set_of_smallest_rings(molecule)[i]) :
        i \in 1..Len(get_smallest_set_of_smallest_rings(molecule))}

\* dict.update: the entries of new replace or extend those of old
Update(old, new) == new @@ old

Enumerated_FromZero(labels, j) ==
    [l \in Range(labels) |-> (CHOOSE i \in 1..Len(labels) : labels[i] = l) - 1]

\* {label: j + i for i, label in enumerate(labels)}
Enumerated(labels, j) == [l \in Range(labels) |-> j + (CHOOSE i \in 1..Len(labels) : labels[i] = l) - 1]

\* Variant of _get_constraint_map that enumerates the bonds whatever conserve_bonds is.
_get_constraint_map_AlwaysBonds(target, conserve_bonds, conserve_ring_size, ring_order) ==
    LET atom_map == Enumerated(Keys(get_element_count(target.molecule)), 0)
        bond_map == Update(atom_map, Enumerated(Keys(enumerate_bonds(target.molecule)),
                                                Cardinality(DOMAIN atom_map)))
    IN  IF conserve_ring_size
        THEN Update(bond_map, Enumerated(ring_order, Cardinality(DOMAIN bond_map)))
        ELSE bond_map

_get_constraint_map(target, conserve_bonds, conserve_ring_size, ring_order) ==
    LET atom_map == Enumerated(Keys(get_element_count(target.molecule)), 0)
        bond_map == IF conserve_bonds
                    THEN Update(atom_map, Enumerated(Keys(enumerate_bonds(target.molecule)),
                                                     Cardinality(DOMAIN atom_map)))
                    ELSE atom_map
    IN  IF conserve_ring_size
        THEN Update(bond_map, Enumerated(ring_order, Cardinality(DOMAIN bond_map)))
        ELSE bond_map

\* the orders in which a set can be iterated
IterationOrders(S) == InjectiveSeqs(S, Cardinality(S))

(***************************************************************************)
(* SpeciesConstraints.__init__                                             *)
(***************************************************************************)
SpeciesConstraints(target, reference_list, conserve_bonds, conserve_ring_size) ==
    /\ \E ring_order \in IterationOrders(possible_rings_sizes(target.molecule)) :
          sc' = [type |-> "SpeciesConstraints",
                 target |-> target,
                 all_reference_species |-> reference_list,
                 reference_species |-> <<>>,
                 conserve_bonds |-> conserve_bonds,
                 conserve_ring_size |-> conserve_ring_size,
                 constraint_map |-> _get_constraint_map(target, conserve_bonds,
                                                        conserve_ring_size, ring_order)]
    /\ sc_out' = None
    /\ UNCHANGED <<rxnVars, ecsVars, refVars, dbVars, metalVars>>

ReferenceLists ==
    UNION {[1..n -> {AsSpecies(m) : m \in ReferenceMolecules}] : n \in 0..MaxCandidates}

NewSpeciesConstraints ==
    /\ sc = None
    /\ \E target \in {AsSpecies(m) : m \in TargetMolecules},
          reference_list \in ReferenceLists,
          conserve_bonds \in BOOLEAN, conserve_ring_size \in BOOLEAN :
            SpeciesConstraints(target, reference_list, conserve_bonds, conserve_ring_size)

(***************************************************************************)
(* SpeciesConstraints._enumerate_constraints                               *)
(* A vector is a sequence; index k of the numpy array is position k + 1.   *)
(***************************************************************************)
RECURSIVE SumCounts(_, _, _)
\* sum of the counts of the dict's entries whose label has index k in map
SumCounts(dict, map, k) ==
    IF dict = <<>> THEN 0
    ELSE (IF map[dict[1][1]] = k THEN dict[1][2] ELSE 0) + SumCounts(Tail(dict), map, k)

RingCount_Presence(rings, map, k) ==
    IF \E i \in 1..Len(rings) : map[RingLabel(rings[i])] = k THEN 1 ELSE 0

RingCount(rings, map, k) == Cardinality({i \in 1..Len(rings) : map[RingLabel(rings[i])] = k})

\* Variant of _enumerate_constraints that leaves out a ring of unknown size
\* instead of failing.
_enumerate_constraints_SkipsUnknownRing(self, species) ==
    LET molecule == species.molecule
        map == self.constraint_map
        atoms == get_element_count(molecule)
        bonds == enumerate_bonds(molecule)
        rings == SelectSeq(get_smallest_set_of_smallest_rings(molecule),
                           LAMBDA ring : RingLabel(ring) \in DOMAIN map)
        KeyError ==
            \/ \E i \in 1..Len(atoms) : atoms[i][1] \notin DOMAIN map
            \/ self.conserve_bonds /\ \E i \in 1..Len(bonds) : bonds[i][1] \notin DOMAIN map
    IN  IF KeyError
        THEN None
        ELSE [type |-> "ndarray",
              v |-> [k \in 1..Cardinality(DOMAIN map) |->
                        SumCounts(atoms, map, k - 1)
                        + (IF self.conserve_bonds THEN SumCounts(bonds, map, k - 1) ELSE 0)
                        + (IF self.conserve_ring_size THEN RingCount(rings, map, k - 1) ELSE 0)]]

_enumerate_constraints(self, species) ==
    LET molecule == species.molecule
        map == self.constraint_map
        atoms == get_element_count(molecule)
        bonds == enumerate_bonds(molecule)
        rings == get_smallest_set_of_smallest_rings(molecule)
        KeyError ==
            \/ \E i \in 1..Len(atoms) : atoms[i][1] \notin DOMAIN map
            \/ self.conserve_bonds /\ \E i \in 1..Len(bonds) : bonds[i][1] \notin DOMAIN map
            \/ self.conserve_ring_size /\ \E i \in 1..Len(rings) : RingLabel(rings[i]) \notin DOMAIN map
    IN  IF KeyError
        THEN None
        ELSE [type |-> "ndarray",
              v |-> [k \in 1..Cardinality(DOMAIN map) |->
                        SumCounts(atoms, map, k - 1)
                        + (IF self.conserve_bonds THEN SumCounts(bonds, map, k - 1) ELSE 0)
                        + (IF self.conserve_ring_size THEN RingCount(rings, map, k - 1) ELSE 0)]]

(***************************************************************************)
(* SpeciesConstraints.calculate_constraints                                *)
(***************************************************************************)
\* Variant of Allowed that starts at the second species of the list.
Allowed_SkipsFirst(self, list) ==
    SelectSeq(IF list = <<>> THEN list ELSE Tail(list),
              LAMBDA spcs : _enumerate_constraints(self, spcs) # None)

Allowed(self, list) == SelectSeq(list, LAMBDA spcs : _enumerate_constraints(self, spcs) # None)

\* Variant of calculate_constraints that gives the unknown atom labels of the
\* reference species an index of their own.
calculate_constraints_GrowsMap(self) ==
    LET allowed == Allowed(self, self.all_reference_species)
        seen == UNION {Range(Keys(get_element_count(self.all_reference_species[i].molecule))) :
                        i \in 1..Len(self.all_reference_species)}
        grown == [l \in seen \ DOMAIN self.constraint_map |-> Cardinality(DOMAIN self.constraint_map)]
                 @@ self.constraint_map
    IN  [self |-> [self EXCEPT !.reference_species = self.reference_species \o allowed,
                               !.constraint_map = grown],
         target_constraints |-> _enumerate_constraints(self, self.target),
         constraint_matrix |-> [i \in 1..Len(allowed) |-> _enumerate_constraints(self, allowed[i]).v]]

calculate_constraints_TargetOfFirstAllowed(self) ==
    LET allowed == Allowed(self, self.all_reference_species)
    IN  [self |-> [self EXCEPT !.reference_species = self.reference_species \o allowed],
         target_constraints |-> _enumerate_constraints(self, IF allowed = <<>> THEN self.target
                                                              ELSE allowed[1]),
         constraint_matrix |-> [i \in 1..Len(allowed) |-> _enumerate_constraints(self, allowed[i]).v]]

calculate_constraints(self) ==
    LET allowed == Allowed(self, self.all_reference_species)
    IN  [self |-> [self EXCEPT !.reference_species = self.reference_species \o allowed],
         target_constraints |-> _enumerate_constraints(self, self.target),
         constraint_matrix |-> [i \in 1..Len(allowed) |-> _enumerate_constraints(self, allowed[i]).v]]

CalculateConstraints ==
    /\ sc # None
    /\ Len(sc.reference_species) <= MaxAccepted
    /\ LET call == calculate_constraints(sc)
       IN  /\ sc' = call.self
           /\ sc_out' = [type |-> "tuple",
                         target_constraints |-> call.target_constraints,
                         constraint_matrix |-> call.constraint_matrix]
    /\ UNCHANGED <<rxnVars, ecsVars, refVars, dbVars, metalVars>>

NextConstraints ==
    \/ NewSpeciesConstraints
    \/ CalculateConstraints

(***************************************************************************)
(* Construction of an ErrorCancelingSpecies from arguments of any type,    *)
(* and the call of a method the class does not define.                     *)
(***************************************************************************)
MoleculeArguments == {Name("A"), None, Str("CC")}

ModelChemistryArguments == {Str("X"), Str(""), None, [type |-> "int", v |-> 1]}

LowLevelArguments == {Tuple(50, "J/mol"), Tuple(2, "kJ/mol")}

HighLevelArguments == {None, Tuple(40, "J/mol"), Tuple(3, "kJ/mol")}

SourceArguments == {None, Str("ref")}

NewSpecies ==
    /\ ecs = None
    /\ ecs_out = None
    /\ \E molecule \in MoleculeArguments, low_level_hf298 \in LowLevelArguments,
          model_chemistry \in ModelChemistryArguments,
          high_level_hf298 \in HighLevelArguments, source \in SourceArguments :
          LET made == ErrorCancelingSpecies(molecule, low_level_hf298, model_chemistry,
                                            high_level_hf298, source)
              args == [molecule |-> molecule, low_level_hf298 |-> low_level_hf298,
                       model_chemistry |-> model_chemistry,
                       high_level_hf298 |-> high_level_hf298, source |-> source]
          IN  IF made.type = "raise"
              THEN /\ ecs' = None
                   /\ ecs_out' = [type |-> "raise", exc |-> made.exc, what |-> made.what,
                                   args |-> args]
              ELSE /\ ecs' = made
                   /\ ecs_out' = [type |-> "constructed", args |-> args]
    /\ UNCHANGED <<rxnVars, scVars, refVars, dbVars, metalVars>>

\* Variant of with_high_level that stores the value and the source in the species.
with_high_level_SetsInPlace(self, value, source) ==
    [self |-> [self EXCEPT !.high_level_hf298 = ScalarQuantity(value.t[1], value.t[2]),
                           !.source = source],
     out |-> None]

\* ErrorCancelingSpecies defines __init__ and __repr__ only: looking up
\* with_high_level on a species raises AttributeError.
with_high_level(self, value, source) ==
    [self |-> self,
     out |-> [type |-> "raise", exc |-> "AttributeError", what |-> "with_high_level"]]

WithHighLevel ==
    /\ ecs # None
    /\ \E value \in HighLevelArguments \ {None}, source \in SourceArguments \ {None} :
          LET call == with_high_level(ecs, value, source)
          IN  /\ ecs' = call.self
              /\ ecs_out' = call.out
    /\ UNCHANGED <<rxnVars, scVars, refVars, dbVars, metalVars>>

NextSpecies ==
    \/ NewSpecies
    \/ WithHighLevel

(***************************************************************************)
(* arkane/reference.py: ReferenceSpecies.                                  *)
(* reference_data is a dict {source: ReferenceDataEntry} and               *)
(* calculated_data a dict {model chemistry: CalculatedDataEntry}; an entry *)
(* is given by the H298 of its thermo_data, a (value, units) quantity, and *)
(* for reference data by the uncertainty of that H298.                     *)
(***************************************************************************)
Raise(exc, what) == [type |-> "raise", exc |-> exc, what |-> what]

\* key in dict
In(key, dict) == \E i \in 1..Len(dict) : dict[i][1] = key

\* dict[key]
Get(dict, key) == dict[CHOOSE i \in 1..Len(dict) : dict[i][1] = key][2]

Values(dict) == [i \in 1..Len(dict) |-> dict[i][2]]

Sources == {"precise", "less_precise", "other"}

\* the H298 that a source reports
SourceH298(source) ==
    IF source = "precise" THEN Tuple(100, "kJ/mol")
    ELSE IF source = "less_precise" THEN Tuple(25, "kcal/mol")
    ELSE Tuple(7, "J/mol")

ReferenceDataEntry(source, uncertainty) ==
    [type |-> "ReferenceDataEntry", H298 |-> SourceH298(source), uncertainty_si |-> uncertainty]

CalculatedDataEntry(value, units) ==
    [type |-> "CalculatedDataEntry", H298 |-> Tuple(value, units)]

ReferenceDataDicts ==
    UNION { { [i \in 1..Len(keys) |-> <<keys[i], ReferenceDataEntry(keys[i], u[i])>>] :
                u \in [1..Len(keys) -> 0..MaxUncertainty] } :
            keys \in InjectiveSeqsUpTo(Sources, MaxSources) }

CalculatedDataDicts ==
    { <<>>,
      << <<"good_chem", CalculatedDataEntry(110, "kJ/mol")>> >>,
      << <<"good_chem", CalculatedDataEntry(110, "kJ/mol")>>,
         <<"bad_chem", CalculatedDataEntry(120, "kJ/mol")>> >> }

\* "missing" is in no reference_data
PreferredReferences == {None, Str("precise"), Str("less_precise"), Str("missing")}

ReferenceSpecies(smiles, reference_data, calculated_data, preferred_reference, index, label) ==
    [type |-> "ReferenceSpecies",
     smiles |-> smiles,
     reference_data |-> reference_data,
     calculated_data |-> calculated_data,
     preferred_reference |-> preferred_reference,
     index |-> index,
     label |-> label]

(***************************************************************************)
(* ReferenceSpecies.get_preferred_source                                   *)
(***************************************************************************)
RECURSIVE SmallestUncertainty(_, _, _, _)
\* the loop over data: i is the next entry, best the index kept so far
SmallestUncertainty(data, i, best, uncertainty) ==
    IF i > Len(data) THEN best
    ELSE IF 0 < data[i].uncertainty_si /\ data[i].uncertainty_si < uncertainty
         THEN SmallestUncertainty(data, i + 1, i, data[i].uncertainty_si)
         ELSE SmallestUncertainty(data, i + 1, best, uncertainty)

get_preferred_source_IgnoresPreferred(self) ==
    LET sources == Keys(self.reference_data)
        data == Values(self.reference_data)
    IN  IF Len(sources) = 0
        THEN (IF self.preferred_reference # None
              THEN self.preferred_reference
              ELSE Raise("IndexError", "sources[0]"))
        ELSE Str(sources[SmallestUncertainty(data, 1, 1, data[1].uncertainty_si)])

get_preferred_source(self) ==
    IF self.preferred_reference # None
    THEN self.preferred_reference
    ELSE LET sources == Keys(self.reference_data)
             data == Values(self.reference_data)
         IN  IF Len(sources) = 0
             THEN Raise("IndexError", "sources[0]")
             ELSE Str(sources[SmallestUncertainty(data, 1, 1, data[1].uncertainty_si)])

(***************************************************************************)
(* ReferenceSpecies.get_reference_enthalpy                                 *)
(***************************************************************************)
get_reference_enthalpy_IgnoresSource(self, source) ==
    IF Len(self.reference_data) = 0
    THEN Raise("ValueError", "reference_data")
    ELSE LET preferred_source == get_preferred_source(self)
         IN  IF ~In(preferred_source.v, self.reference_data)
             THEN Raise("KeyError", "reference_data")
             ELSE [type |-> "ReferenceEnthalpy",
                   h298 |-> Get(self.reference_data, preferred_source.v).H298,
                   source |-> preferred_source]

get_reference_enthalpy(self, source) ==
    IF Len(self.reference_data) = 0
    THEN Raise("ValueError", "reference_data")
    ELSE LET preferred_source == IF source = None THEN get_preferred_source(self) ELSE source
         IN  IF ~In(preferred_source.v, self.reference_data)
             THEN Raise("KeyError", "reference_data")
             ELSE [type |-> "ReferenceEnthalpy",
                   h298 |-> Get(self.reference_data, preferred_source.v).H298,
                   source |-> preferred_source]

(***************************************************************************)
(* ReferenceSpecies.to_error_canceling_spcs                                *)
(***************************************************************************)
to_error_canceling_spcs(self, model_chemistry, source) ==
    IF ~In(model_chemistry, self.calculated_data)
    THEN Raise("KeyError", "calculated_data")
    ELSE LET reference_enthalpy == get_reference_enthalpy(self, source)
         IN  IF reference_enthalpy.type = "raise"
             THEN reference_enthalpy
             ELSE ErrorCancelingSpecies(Name(self.smiles),
                                        Get(self.calculated_data, model_chemistry).H298,
                                        Str(model_chemistry),
                                        reference_enthalpy.h298,
                                        reference_enthalpy.source)

(***************************************************************************)
(* A reference species and the calls of its methods.                       *)
(***************************************************************************)
NewReferenceSpecies ==
    /\ ref = None
    /\ \E reference_data \in ReferenceDataDicts, calculated_data \in CalculatedDataDicts,
          preferred_reference \in PreferredReferences :
          ref' = ReferenceSpecies("CC", reference_data, calculated_data, preferred_reference,
                                  None, None)
    /\ ref_out' = None
    /\ UNCHANGED <<rxnVars, scVars, ecsVars, dbVars, metalVars>>

GetPreferredSource ==
    /\ ref # None
    /\ ref_out' = [type |-> "call", method |-> "get_preferred_source",
                   result |-> get_preferred_source(ref)]
    /\ UNCHANGED <<ref, rxnVars, scVars, ecsVars, dbVars, metalVars>>

ToErrorCancelingSpcs ==
    /\ ref # None
    /\ \E model_chemistry \in {"good_chem", "bad_chem"},
          source \in {None, Str("less_precise"), Str("missing")} :
          ref_out' = [type |-> "call", method |-> "to_error_canceling_spcs",
                      model_chemistry |-> model_chemistry, source |-> source,
                      result |-> to_error_canceling_spcs(ref, model_chemistry, source)]
    /\ UNCHANGED <<ref, rxnVars, scVars, ecsVars, dbVars, metalVars>>

NextReferenceSpecies ==
    \/ NewReferenceSpecies
    \/ GetPreferredSource
    \/ ToErrorCancelingSpcs

(***************************************************************************)
(* arkane/reference.py: ReferenceDatabase.                                 *)
(* reference_sets is a dict {set name: [ReferenceSpecies, ...]}.  The      *)
(* reference sets are directories of YAML files, one per species; the      *)
(* file system below holds three of them, two with the same base name.     *)
(***************************************************************************)
IntValue(n) == [type |-> "int", v |-> n]

List(items) == [type |-> "list", items |-> items]

ReferenceDatabase == [type |-> "ReferenceDatabase", reference_sets |-> <<>>]

\* dict[key] = value
SetItem(dict, key, value) ==
    IF In(key, dict)
    THEN [i \in 1..Len(dict) |-> IF dict[i][1] = key THEN <<key, value>> ELSE dict[i]]
    ELSE Append(dict, <<key, value>>)

Entries(sources, uncertainties) ==
    [i \in 1..Len(sources) |-> <<sources[i], ReferenceDataEntry(sources[i], uncertainties[i])>>]

Ethane ==
    ReferenceSpecies("CC", Entries(<<"precise", "less_precise">>, <<1, 2>>),
                     << <<"good_chem", CalculatedDataEntry(110, "kJ/mol")>> >>,
                     Str("less_precise"), IntValue(5), Str("ethane"))

Butane ==
    ReferenceSpecies("CCCC", Entries(<<"precise">>, <<1>>),
                     << <<"bad_chem", CalculatedDataEntry(120, "kJ/mol")>> >>,
                     None, IntValue(3), Str("5"))

Propane ==
    ReferenceSpecies("CCC", Entries(<<"less_precise", "precise">>, <<2, 1>>),
                     << <<"good_chem", CalculatedDataEntry(130, "kJ/mol")>>,
                        <<"bad_chem", CalculatedDataEntry(140, "kJ/mol")>> >>,
                     None, IntValue(7), Str("propane"))

\* no reference data
Methane ==
    ReferenceSpecies("C", <<>>,
                     << <<"good_chem", CalculatedDataEntry(150, "kJ/mol")>> >>,
                     None, IntValue(4), Str("methane"))

\* a second file of ethane, with the index of Ethene
EthaneAgain ==
    ReferenceSpecies("CC", Entries(<<"other">>, <<0>>),
                     << <<"good_chem", CalculatedDataEntry(160, "kJ/mol")>> >>,
                     None, IntValue(5), Str("ethane"))

\* its preferred reference is not among its reference data
Ethene ==
    ReferenceSpecies("C=C", Entries(<<"precise">>, <<1>>),
                     << <<"good_chem", CalculatedDataEntry(170, "kJ/mol")>> >>,
                     Str("missing"), IntValue(5), Str("ethene"))

MAIN_REFERENCE_PATH == "/db/main"

Paths == {MAIN_REFERENCE_PATH, "/a/testing_1", "/b/testing_1"}

\* os.path.basename
basename(path) == IF path = MAIN_REFERENCE_PATH THEN "main" ELSE "testing_1"

SetNames == {"main", "testing_1"}

\* the files of a directory; load_yaml of a file gives its spcs
Directory(path) ==
    IF path = MAIN_REFERENCE_PATH
    THEN { [name |-> "0.yml", spcs |-> Ethane], [name |-> "1.yml", spcs |-> Butane],
           [name |-> "README.txt", spcs |-> None] }
    ELSE IF path = "/a/testing_1"
    THEN { [name |-> "0.yml", spcs |-> Propane], [name |-> "1.yml", spcs |-> Methane] }
    ELSE { [name |-> "0.yml", spcs |-> EthaneAgain], [name |-> "1.yml", spcs |-> Ethene] }

\* '.yml' in name
ContainsYml(name) == name \in {"0.yml", "1.yml"}

\* os.listdir returns the entries of a directory in arbitrary order: the
\* possible listings of the directories that a call of load reads
Listings(paths) ==
    { listing \in [paths -> UNION { InjectiveSeqs(Directory(path), Cardinality(Directory(path))) :
                                        path \in paths }] :
        \A path \in paths : Range(listing[path]) = Directory(path) }

(***************************************************************************)
(* ReferenceDatabase.load                                                  *)
(***************************************************************************)
\* molecule.is_isomorphic(mol) for some mol in molecule_list
IsKnown(molecule, molecule_list) ==
    \E i \in 1..Len(molecule_list) : molecule_list[i] = molecule

Incomplete_CalculatedOnly(ref_spcs) ==
    Len(ref_spcs.calculated_data) = 0

\* a species without calculated data or without reference data
Incomplete(ref_spcs) ==
    (Len(ref_spcs.calculated_data) = 0) \/ (Len(ref_spcs.reference_data) = 0)

RECURSIVE LoadFiles(_, _, _, _, _)
\* the loop over spcs_files: the pair of molecule_list and reference_set
LoadFiles(spcs_files, i, ignore_incomplete, molecule_list, reference_set) ==
    IF i > Len(spcs_files) THEN <<molecule_list, reference_set>>
    ELSE IF ~ContainsYml(spcs_files[i].name)
    THEN LoadFiles(spcs_files, i + 1, ignore_incomplete, molecule_list, reference_set)
    ELSE LET ref_spcs == spcs_files[i].spcs
             molecule == Name(ref_spcs.smiles)
         IN  IF ignore_incomplete /\ Incomplete(ref_spcs)
             THEN LoadFiles(spcs_files, i + 1, ignore_incomplete, molecule_list, reference_set)
             ELSE IF IsKnown(molecule, molecule_list)
             THEN LoadFiles(spcs_files, i + 1, ignore_incomplete, molecule_list, reference_set)
             ELSE LoadFiles(spcs_files, i + 1, ignore_incomplete,
                            Append(molecule_list, molecule), Append(reference_set, ref_spcs))

RECURSIVE LoadPaths(_, _, _, _, _, _)
\* the loop over paths: the reference_sets at its end
LoadPaths(paths, k, ignore_incomplete, listing, molecule_list, reference_sets) ==
    IF k > Len(paths) THEN reference_sets
    ELSE LET set_name == basename(paths[k])
             loaded == LoadFiles(listing[paths[k]], 1, ignore_incomplete, molecule_list, <<>>)
         IN  LoadPaths(paths, k + 1, ignore_incomplete, listing, loaded[1],
                       SetItem(reference_sets, set_name, loaded[2]))

\* paths as the list that load iterates over
PathList(paths) ==
    IF paths = None THEN <<MAIN_REFERENCE_PATH>>
    ELSE IF isinstance(paths, "str") THEN <<paths.v>>
    ELSE paths.items

load_Resets(self, paths, ignore_incomplete, listing) ==
    [self EXCEPT !.reference_sets =
        LoadPaths(PathList(paths), 1, ignore_incomplete, listing, <<>>, <<>>)]

load(self, paths, ignore_incomplete, listing) ==
    [self EXCEPT !.reference_sets =
        LoadPaths(PathList(paths), 1, ignore_incomplete, listing, <<>>, self.reference_sets)]

(***************************************************************************)
(* ReferenceDatabase.extract_model_chemistry                               *)
(***************************************************************************)
RECURSIVE Concat(_)
Concat(lists) == IF Len(lists) = 0 THEN <<>> ELSE Head(lists) \o Concat(Tail(lists))

\* the species of a set that are appended to reference_list
Extracted(current_set, model_chemistry) ==
    SelectSeq(current_set, LAMBDA ref_spcs : /\ In(model_chemistry, ref_spcs.calculated_data)
                                             /\ Len(ref_spcs.reference_data) > 0)

extract_model_chemistry_KeepsAll(self, model_chemistry, sets, as_error_canceling_species) ==
    LET set_names == IF sets = None THEN Keys(self.reference_sets) ELSE sets.items
    IN  IF \E k \in 1..Len(set_names) : ~In(set_names[k], self.reference_sets)
        THEN Raise("KeyError", "reference_sets")
        ELSE LET reference_list ==
                     Concat([k \in 1..Len(set_names) |-> Get(self.reference_sets, set_names[k])])
                 converted ==
                     [i \in 1..Len(reference_list) |->
                         to_error_canceling_spcs(reference_list[i], model_chemistry, None)]
             IN  IF ~as_error_canceling_species THEN List(reference_list)
                 ELSE IF \E i \in 1..Len(converted) : converted[i].type = "raise"
                 THEN converted[CHOOSE i \in 1..Len(converted) :
                                    /\ converted[i].type = "raise"
                                    /\ \A j \in 1..(i - 1) : converted[j].type # "raise"]
                 ELSE List(converted)

extract_model_chemistry(self, model_chemistry, sets, as_error_canceling_species) ==
    LET set_names == IF sets = None THEN Keys(self.reference_sets) ELSE sets.items
    IN  IF \E k \in 1..Len(set_names) : ~In(set_names[k], self.reference_sets)
        THEN Raise("KeyError", "reference_sets")
        ELSE LET reference_list ==
                     Concat([k \in 1..Len(set_names) |->
                                Extracted(Get(self.reference_sets, set_names[k]), model_chemistry)])
                 converted ==
                     [i \in 1..Len(reference_list) |->
                         to_error_canceling_spcs(reference_list[i], model_chemistry, None)]
             IN  IF ~as_error_canceling_species THEN List(reference_list)
                 ELSE IF \E i \in 1..Len(converted) : converted[i].type = "raise"
                 THEN converted[CHOOSE i \in 1..Len(converted) :
                                    /\ converted[i].type = "raise"
                                    /\ \A j \in 1..(i - 1) : converted[j].type # "raise"]
                 ELSE List(converted)

(***************************************************************************)
(* ReferenceDatabase.get_species_from_index, get_species_from_label        *)
(***************************************************************************)
\* int(index) of the str arguments in use
ParseInt(digits) == IF digits = "3" THEN 3 ELSE 5

\* str(label) of the int arguments in use
Repr(n) == IF n = 5 THEN "5" ELSE "3"

\* the first species of search_set whose field is the key, None without one
FirstMatch(search_set, field, key) ==
    IF \E i \in 1..Len(search_set) : search_set[i][field] = key
    THEN search_set[CHOOSE i \in 1..Len(search_set) :
                        /\ search_set[i][field] = key
                        /\ \A j \in 1..(i - 1) : search_set[j][field] # key]
    ELSE None

Lookup_SkipsUnmatched(search_set, field, keys) ==
    LET found == [i \in 1..Len(keys) |-> FirstMatch(search_set, field, keys[i])]
    IN  List(SelectSeq(found, LAMBDA ref_spcs : ref_spcs # None))

\* the loop over the requested keys: the list of the first matches, or the
\* ValueError of the first key without a match
Lookup(search_set, field, keys) ==
    LET found == [i \in 1..Len(keys) |-> FirstMatch(search_set, field, keys[i])]
    IN  IF \E i \in 1..Len(keys) : found[i] = None
        THEN [type |-> "raise", exc |-> "ValueError", what |-> field,
              key |-> keys[CHOOSE i \in 1..Len(keys) :
                               /\ found[i] = None
                               /\ \A j \in 1..(i - 1) : found[j] # None]]
        ELSE List(found)

get_species_from_index(self, indices, set_name) ==
    LET index_list == IF isinstance(indices, "list") THEN indices.items ELSE <<indices>>
        converted == [i \in 1..Len(index_list) |->
                         IF isinstance(index_list[i], "int") THEN index_list[i]
                         ELSE IntValue(ParseInt(index_list[i].v))]
    IN  IF ~In(set_name, self.reference_sets)
        THEN Raise("KeyError", "reference_sets")
        ELSE Lookup(Get(self.reference_sets, set_name), "index", converted)

get_species_from_label(self, labels, set_name) ==
    LET label_list == IF isinstance(labels, "list") THEN labels.items ELSE <<labels>>
        converted == [i \in 1..Len(label_list) |->
                         IF isinstance(label_list[i], "str") THEN label_list[i]
                         ELSE Str(Repr(label_list[i].v))]
    IN  IF ~In(set_name, self.reference_sets)
        THEN Raise("KeyError", "reference_sets")
        ELSE Lookup(Get(self.reference_sets, set_name), "label", converted)

(***************************************************************************)
(* The calls on a reference database.                                      *)
(***************************************************************************)
SeqsUpTo(S, n) == UNION { [1..k -> S] : k \in 0..n }

PathArguments ==
    {None} \cup { Str(path) : path \in Paths }
           \cup { List(<<"/a/testing_1">>),
                  List(<<MAIN_REFERENCE_PATH, "/a/testing_1">>),
                  List(<<"/a/testing_1", "/b/testing_1">>),
                  List(<<"/b/testing_1", "/a/testing_1">>),
                  List(<<"/b/testing_1", MAIN_REFERENCE_PATH>>),
                  List(<<"/a/testing_1", "/a/testing_1">>) }

SetArguments == {None} \cup { List(sets) : sets \in SeqsUpTo(SetNames, MaxSets) }

IndexKeys == {IntValue(5), IntValue(9), Str("3")}

LabelKeys == {Str("ethane"), Str("nope"), IntValue(5)}

KeyArguments(keys) == keys \cup { List(requested) : requested \in SeqsUpTo(keys, MaxKeys) }

Load ==
    /\ loads < MaxLoads
    /\ \E paths \in PathArguments, ignore_incomplete \in BOOLEAN :
          \E listing \in Listings(Range(PathList(paths))) :
             /\ db' = load(db, paths, ignore_incomplete, listing)
             /\ db_out' = [type |-> "call", method |-> "load", paths |-> paths,
                           ignore_incomplete |-> ignore_incomplete]
    /\ loads' = loads + 1
    /\ UNCHANGED <<rxnVars, scVars, ecsVars, refVars, metalVars>>

ExtractModelChemistry ==
    /\ \E model_chemistry \in {"good_chem", "bad_chem"}, sets \in SetArguments,
          as_error_canceling_species \in BOOLEAN :
          db_out' = [type |-> "call", method |-> "extract_model_chemistry",
                     model_chemistry |-> model_chemistry, sets |-> sets,
                     as_error_canceling_species |-> as_error_canceling_species,
                     result |-> extract_model_chemistry(db, model_chemistry, sets,
                                                        as_error_canceling_species)]
    /\ UNCHANGED <<db, loads, rxnVars, scVars, ecsVars, refVars, metalVars>>

GetSpeciesFromIndex ==
    /\ \E indices \in KeyArguments(IndexKeys), set_name \in SetNames :
          db_out' = [type |-> "call", method |-> "get_species_from_index",
                     keys |-> indices, set_name |-> set_name,
                     result |-> get_species_from_index(db, indices, set_name)]
    /\ UNCHANGED <<db, loads, rxnVars, scVars, ecsVars, refVars, metalVars>>

GetSpeciesFromLabel ==
    /\ \E labels \in KeyArguments(LabelKeys), set_name \in SetNames :
          db_out' = [type |-> "call", method |-> "get_species_from_label",
                     keys |-> labels, set_name |-> set_name,
                     result |-> get_species_from_label(db, labels, set_name)]
    /\ UNCHANGED <<db, loads, rxnVars, scVars, ecsVars, refVars, metalVars>>

NextDatabase ==
    \/ Load
    \/ ExtractModelChemistry
    \/ GetSpeciesFromIndex
    \/ GetSpeciesFromLabel

(***************************************************************************)
(* rmgpy/data/surface.py: MetalLibrary and MetalDatabase.                  *)
(* The entries of a library are a dict {label: Entry}; an Entry holds the  *)
(* keyword arguments it was made with.                                     *)
(***************************************************************************)
Entry(index, label, metal_, facet, surface_site_density, binding_energies) ==
    [type |-> "Entry", index |-> index, label |-> label, metal |-> metal_, facet |-> facet,
     surface_site_density |-> surface_site_density, binding_energies |-> binding_energies]

MetalLibrary == [type |-> "MetalLibrary", entries |-> <<>>]

MetalDatabase == [type |-> "MetalDatabase", libraries |-> [surface |-> MetalLibrary]]

(***************************************************************************)
(* MetalLibrary.load_entry                                                 *)
(***************************************************************************)
load_entry_KeepsFirst(self, index, label, metal_, facet, surfaceSiteDensity, bindingEnergies) ==
    IF In(label, self.entries) THEN self
    ELSE [self EXCEPT !.entries =
             SetItem(self.entries, label,
                     Entry(index, label, metal_, facet, surfaceSiteDensity, bindingEnergies))]

load_entry(self, index, label, metal_, facet, surfaceSiteDensity, bindingEnergies) ==
    [self EXCEPT !.entries =
        SetItem(self.entries, label,
                Entry(index, label, metal_, facet, surfaceSiteDensity, bindingEnergies))]

(***************************************************************************)
(* MetalLibrary.get_binding_energies, get_surface_site_density             *)
(***************************************************************************)
MetalLibrary_get_binding_energies(self, label) ==
    IF In(label, self.entries)
    THEN Get(self.entries, label).binding_energies
    ELSE Raise("KeyError", "entries")

MetalLibrary_get_surface_site_density(self, label) ==
    IF In(label, self.entries)
    THEN Get(self.entries, label).surface_site_density
    ELSE Raise("KeyError", "entries")

(***************************************************************************)
(* MetalDatabase.get_binding_energies, get_surface_site_density            *)
(***************************************************************************)
get_binding_energies(self, metal_name) ==
    LET metal_data == MetalLibrary_get_binding_energies(self.libraries.surface, metal_name)
    IN  IF metal_data.type = "raise" THEN Raise("DatabaseError", metal_name) ELSE metal_data

get_surface_site_density(self, metal_name) ==
    LET metal_data == MetalLibrary_get_surface_site_density(self.libraries.surface, metal_name)
    IN  IF metal_data.type = "raise" THEN Raise("DatabaseError", metal_name) ELSE metal_data

(***************************************************************************)
(* The calls on a metal database.                                          *)
(***************************************************************************)
MetalLabels == {"Pt111", "Ni111"}

\* the default of surfaceSiteDensity is ()
SurfaceSiteDensities ==
    { [type |-> "tuple", t |-> <<>>], Tuple(2, "mol/cm^2"), Tuple(3, "mol/cm^2") }

\* the default of bindingEnergies is {}
BindingEnergies ==
    { [type |-> "dict", items |-> <<>>],
      [type |-> "dict", items |-> << <<"H", Tuple(-3, "eV/molecule")>> >>],
      [type |-> "dict", items |-> << <<"H", Tuple(-2, "eV/molecule")>>,
                                     <<"C", Tuple(-7, "eV/molecule")>> >>] }

LoadEntry ==
    /\ Len(entered) < MaxEntries
    /\ \E label \in MetalLabels, surfaceSiteDensity \in SurfaceSiteDensities,
          bindingEnergies \in BindingEnergies :
          /\ metal' = [metal EXCEPT !.libraries.surface =
                          load_entry(@, 1, label, "", "111", surfaceSiteDensity, bindingEnergies)]
          /\ entered' = Append(entered, <<label, [surfaceSiteDensity |-> surfaceSiteDensity,
                                                  bindingEnergies |-> bindingEnergies]>>)
    /\ metal_out' = None
    /\ UNCHANGED <<rxnVars, scVars, ecsVars, refVars, dbVars>>

GetBindingEnergies ==
    /\ \E metal_name \in MetalLabels \cup {"Cu111"} :
          metal_out' = [type |-> "call", method |-> "get_binding_energies",
                        metal_name |-> metal_name,
                        result |-> get_binding_energies(metal, metal_name)]
    /\ UNCHANGED <<metal, entered, rxnVars, scVars, ecsVars, refVars, dbVars>>

GetSurfaceSiteDensity ==
    /\ \E metal_name \in MetalLabels \cup {"Cu111"} :
          metal_out' = [type |-> "call", method |-> "get_surface_site_density",
                        metal_name |-> metal_name,
                        result |-> get_surface_site_density(metal, metal_name)]
    /\ UNCHANGED <<metal, entered, rxnVars, scVars, ecsVars, refVars, dbVars>>

NextMetal ==
    \/ LoadEntry
    \/ GetBindingEnergies
    \/ GetSurfaceSiteDensity

NextReaction ==
    \/ NewReaction
    \/ CalculateTargetThermo

Init ==
    /\ rxn = None
    /\ rxn_out = None
    /\ sc = None
    /\ sc_out = None
    /\ ecs = None
    /\ ecs_out = None
    /\ ref = None
    /\ ref_out = None
    /\ db = ReferenceDatabase
    /\ db_out = None
    /\ loads = 0
    /\ metal = MetalDatabase
    /\ metal_out = None
    /\ entered = <<>>

SpecReaction == Init /\ [][NextReaction]_vars

SpecConstraints == Init /\ [][NextConstraints]_vars

SpecSpecies == Init /\ [][NextSpecies]_vars

SpecReferenceSpecies == Init /\ [][NextReferenceSpecies]_vars

SpecDatabase == Init /\ [][NextDatabase]_vars

SpecMetal == Init /\ [][NextMetal]_vars

(***************************************************************************)
(* Properties of ErrorCancelingReaction, checked under SpecReaction.       *)
(***************************************************************************)
RECURSIVE SetSum(_, _)
SetSum(f, S) == IF S = {} THEN 0
                ELSE LET x == CHOOSE x \in S : TRUE IN f[x] + SetSum(f, S \ {x})

\* calculate_target_thermo has been called on the reaction
Calculated == rxn # None /\ rxn_out.type \in {"ScalarQuantity", "raise"}

AllHighLevel(species) == \A i \in 1..Len(species) : species[i][1].high_level_hf298 # None

Companion(smiles, low, high, model_chemistry) ==
    ErrorCancelingSpecies(Name(smiles), Tuple(low, "J/mol"), Str(model_chemistry),
                          Tuple(high, "J/mol"), Str("ref"))

\* C1: when every companion carries a high level enthalpy, calculate_target_thermo
\* returns sum(coeff * high) - (sum(coeff * low) - target low) in J/mol; target
\* low=50 with {A: 30/40 * +1, B: 10/5 * -1} gives 65, and target low=100 with
\* {S: 100/120 * +1} gives 120.
C1_TargetThermo ==
    (Calculated /\ AllHighLevel(rxn.species)) =>
        LET n == Len(rxn.species)
            high == SetSum([i \in 1..n |-> rxn.species[i][2] * rxn.species[i][1].high_level_hf298.value_si], 1..n)
            low == SetSum([i \in 1..n |-> rxn.species[i][2] * rxn.species[i][1].low_level_hf298.value_si], 1..n)
            t == rxn.target.low_level_hf298.value_si
        IN  /\ rxn_out.type = "ScalarQuantity"
            /\ rxn_out.units = "J/mol"
            /\ rxn_out.value_si = high - (low - t)
            /\ (t = 50 /\ rxn.species = << <<Companion("A", 30, 40, "X"), 1>>,
                                           <<Companion("B", 10, 5, "X"), -1>> >>)
                  => rxn_out.value_si = 65
            /\ (t = 100 /\ rxn.species = << <<Companion("S", 100, 120, "X"), 1>> >>)
                  => rxn_out.value_si = 120

C1_Witness ==
    /\ Calculated
    /\ rxn.target.low_level_hf298.value_si = 50
    /\ rxn.species = << <<Companion("A", 30, 40, "X"), 1>>, <<Companion("B", 10, 5, "X"), -1>> >>
    /\ rxn_out.type = "ScalarQuantity"
    /\ rxn_out.value_si = 65

\* C2: a reaction is constructed if and only if every companion's model chemistry
\* equals the target's; otherwise ValueError is raised, naming a mismatched species
\* and both model chemistries, whatever the coefficients are; no reaction object
\* holds a companion of another model chemistry.
C2_ModelChemistryConsistency ==
    /\ rxn # None =>
          /\ rxn.model_chemistry = rxn.target.model_chemistry
          /\ \A i \in 1..Len(rxn.species) :
                rxn.species[i][1].model_chemistry = rxn.target.model_chemistry
    /\ (rxn = None /\ rxn_out # None) =>
          /\ rxn_out.type = "raise"
          /\ rxn_out.exc = "ValueError"
          /\ \E i \in 1..Len(rxn_out.args.species) : rxn_out.args.species[i][1] = rxn_out.spcs
          /\ rxn_out.spcs_model_chemistry = rxn_out.spcs.model_chemistry
          /\ rxn_out.model_chemistry = rxn_out.args.target.model_chemistry
          /\ rxn_out.spcs_model_chemistry # rxn_out.model_chemistry

C2_Witness ==
    /\ rxn = None
    /\ rxn_out # None
    /\ rxn_out.type = "raise"
    /\ Len(rxn_out.args.species) = 2
    /\ rxn_out.args.species[1][1].model_chemistry = rxn_out.args.target.model_chemistry
    /\ rxn_out.args.species[2][1].model_chemistry # rxn_out.args.target.model_chemistry
    /\ rxn_out.args.species[2][2] = 0

\* C3: a reaction with a companion without high level enthalpy can be constructed,
\* and calculate_target_thermo then fails with the error the repository raises for
\* missing reference data (ValueError, as ReferenceSpecies.get_reference_enthalpy).
C3_MissingReferenceDataError ==
    (Calculated /\ ~AllHighLevel(rxn.species)) =>
        (rxn_out.type = "raise" /\ rxn_out.exc = "ValueError")

(***************************************************************************)
(* Properties of SpeciesConstraints, checked under SpecConstraints.        *)
(***************************************************************************)
\* the labels of the atoms, enabled bonds and enabled ring sizes of a molecule
FeatureLabels(molecule, conserve_bonds, conserve_ring_size) ==
    {molecule.element_count[i][1] : i \in 1..Len(molecule.element_count)}
    \cup (IF conserve_bonds THEN {molecule.bonds[i][1] : i \in 1..Len(molecule.bonds)} ELSE {})
    \cup (IF conserve_ring_size THEN {RingLabel(molecule.rings[i]) : i \in 1..Len(molecule.rings)}
          ELSE {})

\* how many features with this label the molecule has
FeatureCount(molecule, label) ==
    SetSum([i \in 1..Len(molecule.element_count) |->
              IF molecule.element_count[i][1] = label THEN molecule.element_count[i][2] ELSE 0],
           1..Len(molecule.element_count))
    + SetSum([i \in 1..Len(molecule.bonds) |->
              IF molecule.bonds[i][1] = label THEN molecule.bonds[i][2] ELSE 0],
             1..Len(molecule.bonds))
    + Cardinality({i \in 1..Len(molecule.rings) : RingLabel(molecule.rings[i]) = label})

Compatible(spcs) ==
    FeatureLabels(spcs.molecule, sc.conserve_bonds, sc.conserve_ring_size)
        \subseteq DOMAIN sc.constraint_map

\* calculate_constraints has been called on the SpeciesConstraints object
Constrained == sc # None /\ sc_out # None

\* C4: a candidate of the reference list is in reference_species, with a row of
\* the matrix, if and only if each of its atom, enabled bond and enabled ring
\* size labels has an index in constraint_map; the rows of the matrix and the
\* candidates accepted by the call are in the order of the reference list, row i
\* counting the features of accepted candidate i.
C4_AcceptedCandidates ==
    Constrained =>
        LET list == sc.all_reference_species
            accepted == SelectSeq(list, Compatible)
            matrix == sc_out.constraint_matrix
            n == Len(sc.reference_species)
        IN  /\ \A i \in 1..Len(list) : Compatible(list[i]) <=> list[i] \in Range(sc.reference_species)
            /\ Len(matrix) = Len(accepted)
            /\ n >= Len(accepted)
            /\ \A i \in 1..Len(matrix) :
                  /\ sc.reference_species[i] = accepted[i]
                  /\ sc.reference_species[n - Len(accepted) + i] = accepted[i]
                  /\ Len(matrix[i]) = Cardinality(DOMAIN sc.constraint_map)
                  /\ \A label \in DOMAIN sc.constraint_map :
                        matrix[i][sc.constraint_map[label] + 1] =
                            FeatureCount(accepted[i].molecule, label)

C4_Witness ==
    /\ Constrained
    /\ Len(sc.all_reference_species) = 2
    /\ ~Compatible(sc.all_reference_species[1])
    /\ Compatible(sc.all_reference_species[2])
    /\ Len(sc_out.constraint_matrix) = 1
    /\ sc.reference_species = <<sc.all_reference_species[2]>>

\* C5: a second call of calculate_constraints on the same object returns the same
\* target vector and matrix and leaves the same reference_species as the first.
C5_Idempotent ==
    [][Constrained => (sc_out' = sc_out /\ sc'.reference_species = sc.reference_species)]_vars

\* C6: after any number of calls of calculate_constraints, the matrix returned
\* last has as many rows as reference_species has entries.
C6_RowsEqualAccepted ==
    Constrained => Len(sc_out.constraint_matrix) = Len(sc.reference_species)

\* the labels of a molecule in first-seen order: atoms, then bonds, then ring sizes
RECURSIVE FirstSeen(_)
FirstSeen(labels) ==
    IF labels = <<>> THEN <<>>
    ELSE LET rest == FirstSeen(SubSeq(labels, 1, Len(labels) - 1))
             last == labels[Len(labels)]
         IN  IF last \in Range(rest) THEN rest ELSE Append(rest, last)

FirstSeenLabels(molecule, conserve_bonds, conserve_ring_size) ==
    Keys(molecule.element_count)
    \o (IF conserve_bonds THEN Keys(molecule.bonds) ELSE <<>>)
    \o (IF conserve_ring_size
        THEN FirstSeen([i \in 1..Len(molecule.rings) |-> RingLabel(molecule.rings[i])])
        ELSE <<>>)

\* C7: constraint_map is determined by the target and the switches: it gives the
\* atom labels the first indices, then the bond labels, then the ring size labels,
\* each group in the target's first-seen order.
C7_LabelOrder ==
    sc # None =>
        LET labels == FirstSeenLabels(sc.target.molecule, sc.conserve_bonds, sc.conserve_ring_size)
        IN  /\ DOMAIN sc.constraint_map = Range(labels)
            /\ \A i \in 1..Len(labels) : sc.constraint_map[labels[i]] = i - 1

\* C8: with conserve_bonds = False and conserve_ring_size = False, constraint_map
\* has one entry per distinct element symbol of the target and the entries of the
\* target vector sum to the number of atoms of the target.
C8_AtomsOnly ==
    (sc # None /\ ~sc.conserve_bonds /\ ~sc.conserve_ring_size) =>
        LET atoms == sc.target.molecule.element_count
        IN  /\ Cardinality(DOMAIN sc.constraint_map) = Cardinality({atoms[i][1] : i \in 1..Len(atoms)})
            /\ sc_out # None =>
                  /\ sc_out.target_constraints # None
                  /\ SetSum(sc_out.target_constraints.v, DOMAIN sc_out.target_constraints.v)
                        = SetSum([i \in 1..Len(atoms) |-> atoms[i][2]], 1..Len(atoms))

C8_Witness ==
    /\ Constrained
    /\ ~sc.conserve_bonds
    /\ ~sc.conserve_ring_size
    /\ Len(sc.target.molecule.element_count) = 2
    /\ Len(sc.target.molecule.bonds) = 2
    /\ Len(sc.target.molecule.rings) = 2
    /\ SetSum(sc_out.target_constraints.v, DOMAIN sc_out.target_constraints.v) = 3

HasForeignRing(spcs) ==
    \E i \in 1..Len(spcs.molecule.rings) :
        \A j \in 1..Len(sc.target.molecule.rings) :
            spcs.molecule.rings[i] # sc.target.molecule.rings[j]

\* C9: with conserve_ring_size = True, a candidate with a ring of a size the
\* target has no ring of is not in reference_species and has no row in the
\* matrix, even when its atom and bond labels are all in constraint_map.
C9_ForeignRingExcluded ==
    (Constrained /\ sc.conserve_ring_size) =>
        LET list == sc.all_reference_species
            others == SelectSeq(list, LAMBDA spcs : ~HasForeignRing(spcs))
        IN  /\ \A i \in 1..Len(list) :
                  HasForeignRing(list[i]) => list[i] \notin Range(sc.reference_species)
            /\ Len(sc_out.constraint_matrix) <= Len(others)
            /\ \A i \in 1..Len(sc_out.constraint_matrix) :
                  Len(sc_out.constraint_matrix[i]) = Cardinality(DOMAIN sc.constraint_map)

C9_Witness ==
    /\ Constrained
    /\ sc.conserve_ring_size
    /\ sc.conserve_bonds
    /\ \E i \in 1..Len(sc.all_reference_species) :
          LET spcs == sc.all_reference_species[i]
          IN  /\ HasForeignRing(spcs)
              /\ FeatureLabels(spcs.molecule, TRUE, FALSE) \subseteq DOMAIN sc.constraint_map
              /\ spcs \notin Range(sc.reference_species)
    /\ Len(sc.target.molecule.rings) > 0

\* C10: whatever the target and the switches are, the target's own vector is never
\* None: calculate_constraints returns a target vector with one entry per label
\* of constraint_map.
C10_TargetVectorizes ==
    Constrained =>
        /\ sc_out.target_constraints # None
        /\ Len(sc_out.target_constraints.v) = Cardinality(DOMAIN sc.constraint_map)

C10_Witness ==
    /\ Constrained
    /\ sc.conserve_bonds
    /\ sc.conserve_ring_size
    /\ Len(sc.target.molecule.bonds) = 2
    /\ Cardinality(Range(sc.target.molecule.rings)) = 2
    /\ sc_out.target_constraints # None
    /\ Len(sc_out.target_constraints.v) = Len(sc.target.molecule.element_count) + 4

\* C11: once a SpeciesConstraints object is constructed, no call of
\* calculate_constraints (which calls _enumerate_constraints on the target and on
\* every reference species, compatible or not) adds, removes or re-indexes a
\* label of constraint_map.
C11_ConstraintMapFrozen ==
    [][sc # None => sc'.constraint_map = sc.constraint_map]_vars

C11_Witness ==
    /\ Constrained
    /\ Len(sc.reference_species) > Len(sc_out.constraint_matrix)
    /\ \E i \in 1..Len(sc.all_reference_species) : ~Compatible(sc.all_reference_species[i])
    /\ \E i \in 1..Len(sc.all_reference_species) : Compatible(sc.all_reference_species[i])

(***************************************************************************)
(* Properties of ErrorCancelingSpecies, checked under SpecSpecies.         *)
(***************************************************************************)
\* C12: the construction of a species is rejected with ValueError when the
\* molecule is not a Molecule, when the model chemistry is not a str and when
\* the model chemistry is the empty string; no species has such a field.
C12_RejectsMalformed ==
    /\ ecs # None =>
          /\ isinstance(ecs.molecule, "Molecule")
          /\ isinstance(ecs.model_chemistry, "str")
          /\ ecs.model_chemistry # Str("")
    /\ (ecs_out # None /\ "args" \in DOMAIN ecs_out) =>
          LET malformed == \/ ~isinstance(ecs_out.args.molecule, "Molecule")
                           \/ ~isinstance(ecs_out.args.model_chemistry, "str")
                           \/ ecs_out.args.model_chemistry = Str("")
          IN  malformed => (ecs = None /\ ecs_out.type = "raise" /\ ecs_out.exc = "ValueError")

\* C13 as stated: with_high_level(value, source) returns a new species with the
\* high level value and source, and leaves the species it is called on unchanged.
C13_WithHighLevelReturnsSpecies ==
    [][ecs # None =>
          /\ ecs' = ecs
          /\ ecs_out'.type = "ErrorCancelingSpecies"
          /\ ecs_out'.high_level_hf298 # None]_vars

\* C13 as amended: ErrorCancelingSpecies has no with_high_level (the call raises
\* AttributeError; the high level value and the source are constructor
\* arguments), and the call leaves the species, its absent high level enthalpy
\* included, unchanged.
C13_NoWithHighLevel ==
    [][ecs # None =>
          /\ ecs' = ecs
          /\ ecs_out'.type = "raise"
          /\ ecs_out'.exc = "AttributeError"]_vars

C13_Witness ==
    /\ ecs # None
    /\ ecs.high_level_hf298 = None
    /\ ecs_out.type = "raise"
    /\ ecs_out.exc = "AttributeError"
    /\ ecs_out.what = "with_high_level"

(***************************************************************************)
(* Further properties of ErrorCancelingReaction, under SpecReaction.       *)
(***************************************************************************)
\* C14: with a companion without high level value, calculate_target_thermo
\* raises before any part of the computation, the low level reaction enthalpy
\* included, is evaluated, and returns no value.
C14_RaisesBeforeComputing ==
    (Calculated /\ ~AllHighLevel(rxn.species)) =>
        /\ rxn_out.type = "raise"
        /\ "low_level_h_rxn" \notin DOMAIN rxn_out

(***************************************************************************)
(* Properties of ReferenceSpecies, checked under SpecReferenceSpecies.     *)
(***************************************************************************)
Called(method) == ref # None /\ ref_out.type = "call" /\ ref_out.method = method

Uncertainty(source) == Get(ref.reference_data, source).uncertainty_si

NonZeroUncertainties ==
    { ref.reference_data[i][2].uncertainty_si : i \in 1..Len(ref.reference_data) } \ {0}

\* the smallest non-zero uncertainty of the reference entries
LowestNonZero == CHOOSE u \in NonZeroUncertainties : \A w \in NonZeroUncertainties : u <= w

\* C16: with preferred_reference set, get_preferred_source returns it whatever
\* the uncertainties are, and to_error_canceling_spcs without a source either
\* raises (unknown model chemistry, no reference data, or no entry for the
\* preferred reference) or returns a species whose high-level enthalpy and
\* source are those of the preferred reference.
C16_PreferredReferenceWins ==
    (ref # None /\ ref.preferred_reference # None) =>
        /\ Called("get_preferred_source") => ref_out.result = ref.preferred_reference
        /\ (Called("to_error_canceling_spcs") /\ ref_out.source = None) =>
              IF /\ In(ref_out.model_chemistry, ref.calculated_data)
                 /\ In(ref.preferred_reference.v, ref.reference_data)
              THEN /\ ref_out.result.type = "ErrorCancelingSpecies"
                   /\ ref_out.result.source = ref.preferred_reference
                   /\ ref_out.result.high_level_hf298 =
                          ScalarQuantity(SourceH298(ref.preferred_reference.v).t[1],
                                         SourceH298(ref.preferred_reference.v).t[2])
              ELSE ref_out.result.type = "raise"

\* the preferred reference has a larger uncertainty than another entry and
\* the species was built from it
C16_Witness ==
    /\ Called("to_error_canceling_spcs")
    /\ ref_out.source = None
    /\ ref.preferred_reference = Str("less_precise")
    /\ In("less_precise", ref.reference_data)
    /\ In("precise", ref.reference_data)
    /\ 0 < Uncertainty("precise")
    /\ Uncertainty("precise") < Uncertainty("less_precise")
    /\ ref_out.result.type = "ErrorCancelingSpecies"
    /\ ref_out.result.high_level_hf298.value_si = 25 * 4184

\* C17: without preferred_reference and with reference data of which some
\* entry has a non-zero uncertainty, the source that get_preferred_source
\* returns has the lowest non-zero uncertainty of all reference entries.
C17_LowestNonZeroUncertainty ==
    (/\ Called("get_preferred_source")
     /\ ref.preferred_reference = None
     /\ Len(ref.reference_data) > 0
     /\ NonZeroUncertainties # {}) =>
        /\ ref_out.result.type = "str"
        /\ Uncertainty(ref_out.result.v) = LowestNonZero

\* C18: without preferred_reference, get_preferred_source returns a source
\* of uncertainty zero only when that source is the only reference entry.
C18_ZeroOnlyWhenAlone ==
    (/\ Called("get_preferred_source")
     /\ ref.preferred_reference = None
     /\ ref_out.result.type = "str"
     /\ Uncertainty(ref_out.result.v) = 0) =>
        Len(ref.reference_data) = 1

\* positions of the entries that share the smallest uncertainty, which is
\* the smallest non-zero one as far as there is one (the criterion of
\* get_preferred_source), and zero when every uncertainty is zero
Smallest ==
    LET u == IF NonZeroUncertainties # {} THEN LowestNonZero ELSE 0
    IN  { i \in 1..Len(ref.reference_data) : ref.reference_data[i][2].uncertainty_si = u }

\* C19: without preferred_reference, when several reference entries share
\* the smallest uncertainty, get_preferred_source returns the one of them
\* that comes first in the order of the reference data.
C19_FirstOfTied ==
    (/\ Called("get_preferred_source")
     /\ ref.preferred_reference = None
     /\ Cardinality(Smallest) > 1) =>
        /\ ref_out.result.type = "str"
        /\ ref_out.result.v =
              ref.reference_data[CHOOSE i \in Smallest : \A j \in Smallest : i <= j][1]

(***************************************************************************)
(* Properties of ReferenceDatabase, checked under SpecDatabase.            *)
(***************************************************************************)
DbCalled(method) == db_out.type = "call" /\ db_out.method = method

\* the set names that a call of extract_model_chemistry selects
Selected == IF db_out.sets = None THEN Keys(db.reference_sets) ELSE db_out.sets.items

SelectedExist == \A k \in 1..Len(Selected) : In(Selected[k], db.reference_sets)

\* the reference species of the selected sets, by set order and position
SelectedSpecies == Concat([k \in 1..Len(Selected) |-> Get(db.reference_sets, Selected[k])])

HasData(ref_spcs, model_chemistry) ==
    /\ \E i \in 1..Len(ref_spcs.calculated_data) : ref_spcs.calculated_data[i][1] = model_chemistry
    /\ ref_spcs.reference_data # <<>>

\* the species that are to have an item in the result
Wanted == SelectSeq(SelectedSpecies, LAMBDA ref_spcs : HasData(ref_spcs, db_out.model_chemistry))

\* the result is a list with one item per wanted species, in their order
OneItemEach ==
    /\ db_out.result.type = "list"
    /\ Len(db_out.result.items) = Len(Wanted)
    /\ \A i \in 1..Len(Wanted) :
          IF db_out.as_error_canceling_species
          THEN /\ db_out.result.items[i].type = "ErrorCancelingSpecies"
               /\ db_out.result.items[i].model_chemistry = Str(db_out.model_chemistry)
               /\ db_out.result.items[i].molecule = Name(Wanted[i].smiles)
          ELSE db_out.result.items[i] = Wanted[i]

\* the preferred reference of a species names none of its reference data
Dangling(ref_spcs) ==
    /\ ref_spcs.preferred_reference # None
    /\ \A i \in 1..Len(ref_spcs.reference_data) :
          ref_spcs.reference_data[i][1] # ref_spcs.preferred_reference.v

\* C15 as stated: extract_model_chemistry(m, sets) returns exactly one item
\* for every reference species of the selected sets that has calculated data
\* for m and non-empty reference data and none for any other, ordered by the
\* given set order and then by position in the set; as error canceling
\* species, each item is an ErrorCancelingSpecies with model chemistry m.
C15_OneItemPerSpecies ==
    (DbCalled("extract_model_chemistry") /\ SelectedExist) => OneItemEach

\* C15 amended: the same, except that with as_error_canceling_species the
\* call raises KeyError and returns nothing when the preferred reference of
\* one of these species is not a source of its reference data.
C15_OneItemPerSpeciesOrKeyError ==
    (DbCalled("extract_model_chemistry") /\ SelectedExist) =>
        IF /\ db_out.as_error_canceling_species
           /\ \E i \in 1..Len(Wanted) : Dangling(Wanted[i])
        THEN db_out.result.type = "raise" /\ db_out.result.exc = "KeyError"
        ELSE OneItemEach

\* both sets are selected in the reverse of their order in the database;
\* butane (no such calculated data) and methane (no reference data) are in
\* the sets and have no item
C15_Witness ==
    /\ DbCalled("extract_model_chemistry")
    /\ db_out.as_error_canceling_species
    /\ db_out.model_chemistry = "good_chem"
    /\ db_out.sets = List(<<"testing_1", "main">>)
    /\ Keys(db.reference_sets) = <<"main", "testing_1">>
    /\ Range(Get(db.reference_sets, "main")) = {Ethane, Butane}
    /\ Range(Get(db.reference_sets, "testing_1")) = {Propane, Methane}
    /\ db_out.result.type = "list"
    /\ Len(db_out.result.items) = 2
    /\ db_out.result.items[1].molecule = Name("CCC")
    /\ db_out.result.items[1].high_level_hf298.value_si = 100 * 1000
    /\ db_out.result.items[2].molecule = Name("CC")
    /\ db_out.result.items[2].high_level_hf298.value_si = 25 * 4184

\* the requested keys of a lookup, as get_species_from_index and
\* get_species_from_label compare them with the species
Requested ==
    LET keys == IF db_out.keys.type = "list" THEN db_out.keys.items ELSE <<db_out.keys>>
    IN  [i \in 1..Len(keys) |->
            IF db_out.method = "get_species_from_index"
            THEN (IF keys[i].type = "int" THEN keys[i] ELSE IntValue(ParseInt(keys[i].v)))
            ELSE (IF keys[i].type = "str" THEN keys[i] ELSE Str(Repr(keys[i].v)))]

KeyOf(ref_spcs) ==
    IF db_out.method = "get_species_from_index" THEN ref_spcs.index ELSE ref_spcs.label

\* C20: get_species_from_index and get_species_from_label return a list
\* with one species of the set per requested key, the i-th having the i-th
\* requested index or label; if a requested key matches no species of the
\* set, ValueError is raised and no list is returned.
C20_OneSpeciesPerKey ==
    (/\ DbCalled("get_species_from_index") \/ DbCalled("get_species_from_label")
     /\ In(db_out.set_name, db.reference_sets)) =>
        LET search_set == Get(db.reference_sets, db_out.set_name)
        IN  IF \A i \in 1..Len(Requested) :
                  \E k \in 1..Len(search_set) : KeyOf(search_set[k]) = Requested[i]
            THEN /\ db_out.result.type = "list"
                 /\ Len(db_out.result.items) = Len(Requested)
                 /\ \A i \in 1..Len(Requested) :
                       /\ db_out.result.items[i] \in Range(search_set)
                       /\ KeyOf(db_out.result.items[i]) = Requested[i]
            ELSE /\ db_out.result.type = "raise"
                 /\ db_out.result.exc = "ValueError"

\* two indices, the first given as a str, in the reverse of their order in
\* the set
C20_Witness ==
    /\ DbCalled("get_species_from_index")
    /\ db_out.keys = List(<<Str("3"), IntValue(5)>>)
    /\ db_out.set_name = "main"
    /\ In("main", db.reference_sets)
    /\ Get(db.reference_sets, "main") = <<Ethane, Butane>>
    /\ db_out.result = List(<<Butane, Ethane>>)

\* a step that is a call of load
LoadStep == loads' = loads + 1

\* the paths of the call of load that db_out records
LoadedPaths == PathList(db_out.paths)

\* C21 as stated: load appends to the database: every set present before a
\* call is present after it with the species it had, and every path of the
\* call has its basename as a key.
C21_LoadKeepsEverySet ==
    [][LoadStep =>
          /\ \A i \in 1..Len(db.reference_sets) :
                /\ In(db.reference_sets[i][1], db'.reference_sets)
                /\ Get(db'.reference_sets, db.reference_sets[i][1]) = db.reference_sets[i][2]
          /\ \A k \in 1..Len(LoadedPaths') : In(basename(LoadedPaths'[k]), db'.reference_sets)]_vars

\* C21 amended: every set present before a call is present after it, with
\* the species it had unless its name is the basename of a path of the call,
\* and every path of the call has its basename as a key.
C21_LoadKeepsOtherSets ==
    [][LoadStep =>
          /\ \A i \in 1..Len(db.reference_sets) :
                /\ In(db.reference_sets[i][1], db'.reference_sets)
                /\ (\A k \in 1..Len(LoadedPaths') :
                       basename(LoadedPaths'[k]) # db.reference_sets[i][1])
                   => Get(db'.reference_sets, db.reference_sets[i][1]) = db.reference_sets[i][2]
          /\ \A k \in 1..Len(LoadedPaths') : In(basename(LoadedPaths'[k]), db'.reference_sets)]_vars

\* the second call has loaded testing_1 and the main set of the first call
\* is still there
C21_Witness ==
    /\ loads = 2
    /\ DbCalled("load")
    /\ db_out.paths = Str("/a/testing_1")
    /\ Keys(db.reference_sets) = <<"main", "testing_1">>
    /\ Range(Get(db.reference_sets, "main")) = {Ethane, Butane}
    /\ Get(db.reference_sets, "testing_1") # <<>>

\* the yml species of the directory of the k-th path whose molecule is in no
\* directory of an earlier path of the call
FirstSeenSpecies(paths, k) ==
    { file.spcs : file \in { f \in Directory(paths[k]) : ContainsYml(f.name) } } \
    { ref_spcs \in { file.spcs : file \in { f \in Directory(paths[k]) : ContainsYml(f.name) } } :
        \E j \in 1..(k - 1) : \E f \in Directory(paths[j]) :
            ContainsYml(f.name) /\ f.spcs.smiles = ref_spcs.smiles }

\* the positions of the paths whose set is the one stored under its name
LastOfName(paths) ==
    { k \in 1..Len(paths) : \A j \in (k + 1)..Len(paths) : basename(paths[j]) # basename(paths[k]) }

\* C22: after load with ignore_incomplete=True, every species of the sets
\* that the call has loaded has calculated data and reference data; with
\* ignore_incomplete=False the species without them are in the sets as well.
C22_IgnoreIncomplete ==
    DbCalled("load") =>
        \A k \in LastOfName(LoadedPaths) :
            LET reference_set == Get(db.reference_sets, basename(LoadedPaths[k]))
            IN  IF db_out.ignore_incomplete
                THEN \A i \in 1..Len(reference_set) :
                        /\ reference_set[i].calculated_data # <<>>
                        /\ reference_set[i].reference_data # <<>>
                ELSE FirstSeenSpecies(LoadedPaths, k) \subseteq Range(reference_set)

\* methane, which has no reference data, is left out of the set
C22_Witness ==
    /\ DbCalled("load")
    /\ db_out.ignore_incomplete
    /\ db_out.paths = Str("/a/testing_1")
    /\ Get(db.reference_sets, "testing_1") = <<Propane>>

\* C24: no two reference species of the database, in the same set or in
\* different sets, are isomorphic.
C24_NoIsomorphicSpecies ==
    \A i, j \in 1..Len(db.reference_sets) :
        \A k \in 1..Len(db.reference_sets[i][2]) : \A l \in 1..Len(db.reference_sets[j][2]) :
            (Name(db.reference_sets[i][2][k].smiles) = Name(db.reference_sets[j][2][l].smiles))
                => (i = j /\ k = l)

(***************************************************************************)
(* Properties of MetalDatabase, checked under SpecMetal.                   *)
(***************************************************************************)
\* the positions of the calls of load_entry with a label
EnteredAt(label) == { i \in 1..Len(entered) : entered[i][1] = label }

\* the arguments of the latest call of load_entry with a label
LatestEntered(label) ==
    entered[CHOOSE i \in EnteredAt(label) : \A j \in EnteredAt(label) : j <= i][2]

\* C23: get_binding_energies(label) and get_surface_site_density(label)
\* return what the latest load_entry for the label stored, and raise
\* DatabaseError for a label that load_entry never got.
C23_LatestEntryOrDatabaseError ==
    (metal_out.type = "call") =>
        IF EnteredAt(metal_out.metal_name) = {}
        THEN metal_out.result.type = "raise" /\ metal_out.result.exc = "DatabaseError"
        ELSE IF metal_out.method = "get_binding_energies"
        THEN metal_out.result = LatestEntered(metal_out.metal_name).bindingEnergies
        ELSE metal_out.result = LatestEntered(metal_out.metal_name).surfaceSiteDensity

\* a label entered twice with different binding energies gives the later ones
C23_Witness ==
    /\ metal_out.type = "call"
    /\ metal_out.method = "get_binding_energies"
    /\ Cardinality(EnteredAt(metal_out.metal_name)) = 2
    /\ entered[1][2].bindingEnergies # entered[2][2].bindingEnergies
    /\ metal_out.result = entered[2][2].bindingEnergies

(***************************************************************************)
(* Further properties of SpeciesConstraints, checked under SpecConstraints.*)
(***************************************************************************)
\* the row of the matrix that belongs to the i-th candidate of the reference
\* list, which is compatible: its rank among the compatible candidates
RowOf(i) ==
    sc_out.constraint_matrix[
        Cardinality({j \in 1..i : Compatible(sc.all_reference_species[j])})]

RingColumns == {sc.constraint_map[RingLabel(n)] + 1 : n \in {m \in 1..6 : RingLabel(m) \in DOMAIN sc.constraint_map}}

\* C25: a candidate whose atom, bond and ring size labels are a proper subset
\* of the labels of constraint_map is accepted, and its row has zero in every
\* column of a label it does not use; with conserve_ring_size a candidate
\* without rings is accepted and has zero in every ring size column, and each
\* ring size column of a row is the number of the candidate's rings of that
\* size.
C25_ProperSubsetAccepted ==
    Constrained =>
        \A i \in 1..Len(sc.all_reference_species) :
            LET spcs == sc.all_reference_species[i]
                used == FeatureLabels(spcs.molecule, sc.conserve_bonds, sc.conserve_ring_size)
            IN  (used \subseteq DOMAIN sc.constraint_map) =>
                    /\ spcs \in Range(sc.reference_species)
                    /\ Cardinality({j \in 1..i : Compatible(sc.all_reference_species[j])})
                          <= Len(sc_out.constraint_matrix)
                    /\ \A label \in DOMAIN sc.constraint_map \ used :
                          RowOf(i)[sc.constraint_map[label] + 1] = 0
                    /\ (sc.conserve_ring_size /\ spcs.molecule.rings = <<>>) =>
                          \A k \in RingColumns : RowOf(i)[k] = 0
                    /\ sc.conserve_ring_size =>
                          \A n \in 1..6 :
                              RingLabel(n) \in DOMAIN sc.constraint_map =>
                                  RowOf(i)[sc.constraint_map[RingLabel(n)] + 1] =
                                      Cardinality({r \in 1..Len(spcs.molecule.rings) :
                                                      spcs.molecule.rings[r] = n})

\* bonds and ring sizes are conserved; the first candidate has no ring and no
\* C=C bond, the second has two rings of size 5, and the target has both
C25_Witness ==
    /\ Constrained
    /\ sc.conserve_bonds
    /\ sc.conserve_ring_size
    /\ "C=C" \in DOMAIN sc.constraint_map
    /\ "5_ring" \in DOMAIN sc.constraint_map
    /\ Len(sc.all_reference_species) = 2
    /\ sc.all_reference_species[1].molecule.rings = <<>>
    /\ sc.all_reference_species[2].molecule.rings = <<5, 5>>
    /\ Len(sc_out.constraint_matrix) = 2
    /\ sc_out.constraint_matrix[1][sc.constraint_map["5_ring"] + 1] = 0
    /\ sc_out.constraint_matrix[1][sc.constraint_map["C=C"] + 1] = 0
    /\ sc_out.constraint_matrix[2][sc.constraint_map["5_ring"] + 1] = 2

\* C26: every entry of the target vector and of the matrix is a non-negative
\* integer, and a row of the matrix is nonzero only in columns in which the
\* target vector is nonzero.
C26_CountsWithinTarget ==
    Constrained =>
        /\ sc_out.target_constraints # None
        /\ \A k \in DOMAIN sc_out.target_constraints.v : sc_out.target_constraints.v[k] \in Nat
        /\ \A i \in 1..Len(sc_out.constraint_matrix) :
              \A k \in DOMAIN sc_out.constraint_matrix[i] :
                  /\ sc_out.constraint_matrix[i][k] \in Nat
                  /\ sc_out.constraint_matrix[i][k] # 0 => sc_out.target_constraints.v[k] # 0

\* a row with a zero and with nonzero entries
C26_Witness ==
    /\ Constrained
    /\ \E i \in 1..Len(sc_out.constraint_matrix) :
          /\ \E k \in DOMAIN sc_out.constraint_matrix[i] : sc_out.constraint_matrix[i][k] = 0
          /\ \E k \in DOMAIN sc_out.constraint_matrix[i] : sc_out.constraint_matrix[i][k] > 1
    /\ \E k \in DOMAIN sc_out.target_constraints.v : sc_out.target_constraints.v[k] > 1

\* C29: constraint_map maps its L labels one-to-one onto 0..L-1.
C29_MapIsBijection ==
    sc # None =>
        LET L == Cardinality(DOMAIN sc.constraint_map)
        IN  /\ \A l1, l2 \in DOMAIN sc.constraint_map :
                  sc.constraint_map[l1] = sc.constraint_map[l2] => l1 = l2
            /\ {sc.constraint_map[l] : l \in DOMAIN sc.constraint_map} = 0..(L - 1)

\* atoms, bonds and ring sizes, two labels of each
C29_Witness ==
    /\ sc # None
    /\ sc.conserve_bonds
    /\ sc.conserve_ring_size
    /\ Cardinality(DOMAIN sc.constraint_map) = 6
    /\ sc.constraint_map["3_ring"] = 5

(***************************************************************************)
(* Further properties of ReferenceSpecies, under SpecReferenceSpecies.     *)
(***************************************************************************)
\* the result is a species with the high level enthalpy of a source
FromSource(result, source) ==
    /\ result.type = "ErrorCancelingSpecies"
    /\ result.source = Str(source)
    /\ result.high_level_hf298 = ScalarQuantity(SourceH298(source).t[1], SourceH298(source).t[2])

\* C27 as stated: to_error_canceling_spcs(m, source) raises KeyError when m is
\* not in calculated_data, whatever the reference data is, raises ValueError
\* when m is there and reference_data is empty, and otherwise returns a
\* species, with the high level value and the source of the given source
\* when one is given.
C27_ErrorsThenSpecies ==
    Called("to_error_canceling_spcs") =>
        IF ~In(ref_out.model_chemistry, ref.calculated_data)
        THEN ref_out.result.type = "raise" /\ ref_out.result.exc = "KeyError"
        ELSE IF ref.reference_data = <<>>
        THEN ref_out.result.type = "raise" /\ ref_out.result.exc = "ValueError"
        ELSE /\ ref_out.result.type = "ErrorCancelingSpecies"
             /\ ref_out.source # None => FromSource(ref_out.result, ref_out.source.v)

\* C27 amended: the same, except that KeyError is raised as well when the
\* source that is used, the given one or else preferred_reference, is not a
\* source of the reference data.
C27_ErrorsThenSpeciesOfKnownSource ==
    Called("to_error_canceling_spcs") =>
        LET used == IF ref_out.source # None THEN ref_out.source ELSE ref.preferred_reference
        IN  IF ~In(ref_out.model_chemistry, ref.calculated_data)
            THEN ref_out.result.type = "raise" /\ ref_out.result.exc = "KeyError"
            ELSE IF ref.reference_data = <<>>
            THEN ref_out.result.type = "raise" /\ ref_out.result.exc = "ValueError"
            ELSE IF used # None /\ ~In(used.v, ref.reference_data)
            THEN ref_out.result.type = "raise" /\ ref_out.result.exc = "KeyError"
            ELSE /\ ref_out.result.type = "ErrorCancelingSpecies"
                 /\ ref_out.result.model_chemistry = Str(ref_out.model_chemistry)
                 /\ used # None => FromSource(ref_out.result, used.v)
                 /\ used = None =>
                       \E i \in 1..Len(ref.reference_data) :
                           FromSource(ref_out.result, ref.reference_data[i][1])

\* the given source is used although another one is preferred
C27_Witness ==
    /\ Called("to_error_canceling_spcs")
    /\ ref_out.source = Str("less_precise")
    /\ ref.preferred_reference = Str("precise")
    /\ In("precise", ref.reference_data)
    /\ FromSource(ref_out.result, "less_precise")
    /\ ref_out.result.high_level_hf298.value_si = 25 * 4184

(***************************************************************************)
(* Further properties of ErrorCancelingReaction, under SpecReaction.       *)
(***************************************************************************)
\* C28: every coefficient of a constructed reaction is nonzero, and no
\* companion of coefficient 0 is among its products or its reactants.
C28_NonzeroCoefficients ==
    rxn # None =>
        /\ \A i \in 1..Len(rxn.species) : rxn.species[i][2] # 0
        /\ \A i \in 1..Len(Products(rxn)) : Products(rxn)[i][2] # 0
        /\ \A i \in 1..Len(Reactants(rxn)) : Reactants(rxn)[i][2] # 0

\* C30: with an empty species dict calculate_target_thermo returns the low
\* level enthalpy of the target, and for every reaction the outcome is the
\* one of the reaction whose target has any other high level enthalpy.
C30_TargetHighLevelUnused ==
    Calculated =>
        /\ rxn.species = <<>> =>
              /\ rxn_out.type = "ScalarQuantity"
              /\ rxn_out.value_si = rxn.target.low_level_hf298.value_si
        /\ \A high_level_hf298 \in {None, ScalarQuantity(110, "J/mol"), ScalarQuantity(3, "kJ/mol")} :
              calculate_target_thermo([rxn EXCEPT !.target.high_level_hf298 = high_level_hf298])
                  = rxn_out

\* no companions, and a target with a high level enthalpy of its own
C30_Witness ==
    /\ Calculated
    /\ rxn.species = <<>>
    /\ rxn.target.high_level_hf298 = ScalarQuantity(110, "J/mol")
    /\ rxn_out.type = "ScalarQuantity"
    /\ rxn_out.value_si = 100

====
